---------------------------- MODULE Spec2Model ----------------------------
(***************************************************************************)
(* Model of the tron-game backend: the GameState session registry          *)
(* (backend/app/game/game_state.py, backend/app/models/player.py) and the  *)
(* websocket server built on it (backend/app/main.py).                     *)
(*                                                                         *)
(* SpecSession drives one GameState object through arbitrary sequences of  *)
(* its methods.  Spec runs the asyncio tasks of main.py (one handler per   *)
(* websocket, the delayed-removal tasks, broadcasts in flight) as          *)
(* interleaved atomic blocks, one block being the code a task runs between *)
(* two suspension points.  SpecBots adds the bot update task and the HTTP  *)
(* endpoints that manage the bots, with clients that send no frames.       *)
(***************************************************************************)
EXTENDS Integers, Sequences, FiniteSets, TLC

(***************************************************************************)
(* Bounds of the model.                                                    *)
(***************************************************************************)
\* websocket connections accepted over the life of the server
MaxWs == 2
\* inbound client messages processed over the life of the server
MaxMessages == 2
\* largest count passed to add_bots
MaxBots == 2
\* GameState method calls in one run of the session specification
MaxOps == 5
\* websocket connections accepted over the life of the server next to the bots
MaxBotWs == 1
\* HTTP requests to the bot endpoints over the life of the server
MaxRequests == 2
\* iterations of the bot update loop over the life of the server
MaxTicks == 2
\* HTTP requests in the specifications of one bot population
MaxPopulations == 1
\* iterations of the bot update loop next to a client that sends frames
MaxRounds == 1
\* update_bot calls on the bot of the motion specification
MaxUpdates == 2

(***************************************************************************)
(* Values.                                                                 *)
(***************************************************************************)
\* player ids used in websocket paths /ws/{player_id}
PlayerIds == {"p1", "p2"}

\* f"{prefix}{i+1}" with the default prefix "Bot_"
BotId(i) == <<"Bot_1", "Bot_2", "Bot_3", "Bot_4", "Bot_5">>[i]

BotIds == {BotId(i) : i \in 1..MaxBots}

\* data.player_id of a chat_message that carries none
Unknown == "Unknown"

\* Player.position default Position(x=0, y=1, z=0)
DefaultPosition == [x |-> 0, y |-> 1, z |-> 0]

\* the position a client reports in player_move
Positions == {[x |-> 1, y |-> 2, z |-> 3]}

NoPosition == [x |-> 0, y |-> 0, z |-> 0]

VARIABLES
    game_state,          \* main.py:41 the GameState object (a record of its fields)
    active_connections,  \* main.py:40 dict player_id -> WebSocket, as its entry table
    conn,                \* per websocket: "none" | "open" | "closed" (peer or server side)
    handlers,            \* per websocket: the state of its websocket_endpoint task
    removals,            \* the delayed_player_removal tasks, in creation order
    inbox,               \* per websocket: the events delivered to its client, in order
    nextWs,              \* number of websockets accepted so far
    received,            \* number of inbound messages read so far
    raised,              \* the broadcasts that ended in RuntimeError (history)
    lastOp,              \* the GameState method called by the last step (history)
    bot_tasks,           \* the bot_update_loop tasks that are alive, in creation order
    requests,            \* the HTTP requests to the bot endpoints that are in flight
    served,              \* number of HTTP requests accepted so far
    ticks,               \* number of iterations of the bot update loop begun so far
    config,              \* performance_config.py: BOT_COUNT, ENABLE_BOT_LIGHT_TRAILS
    bot                  \* bot_player.py: one BotPlayer under update_bot (obj: position
                         \* and heading; last: the coordinates before the boundary
                         \* check and the value returned by the last call; n: calls)

adminVars == <<requests, served, ticks, config, bot>>

vars == <<game_state, active_connections, conn, handlers, removals, inbox,
          nextWs, received, raised, lastOp, bot_tasks, adminVars>>

serverVars == <<active_connections, conn, handlers, removals, inbox, nextWs, received,
                raised, bot_tasks, adminVars>>

(***************************************************************************)
(* models/player.py                                                        *)
(***************************************************************************)
\* Player(id=player_id): the pydantic defaults
Player == [is_eliminated |-> FALSE, score |-> 0, position |-> DefaultPosition]

\* Player.eliminate
eliminate(p) == [p EXCEPT !.is_eliminated = TRUE]

\* Player.to_dict (the id is the key the record is stored under)
to_dict(p) == [is_eliminated |-> p.is_eliminated, score |-> p.score, position |-> p.position]

\* BotPlayer(id, use_light_trails) with spawn_delay = 0: active at once
BotPlayer(use_light_trails) ==
    [is_eliminated |-> FALSE, score |-> 0, active |-> TRUE,
     use_light_trails |-> use_light_trails]

\* Python's None
None == [none |-> TRUE]

\* BotPlayer.to_dict of an active bot calls Player.to_dict, which evaluates
\* self.position.dict(); BotPlayer.__init__ has assigned a plain dict to
\* position (pydantic does not validate assignments), so the call raises
\* AttributeError.  For a bot that is not active the method returns before.
BotPlayer_to_dict_raises(b) == b.active

\* the value BotPlayer.to_dict returns when it returns
BotPlayer_to_dict(b) == None

(***************************************************************************)
(* models/bot_player.py:53-129 BotPlayer.update_bot.  Coordinates are      *)
(* whole arena units.  A heading is a whole number of sixteenths of pi, so *)
(* that the noise of a bounce, random.uniform(-0.2, 0.2) radians, is one   *)
(* step either way or none (pi/16 = 0.196).  The inputs of a call are      *)
(* dist = speed * delta_time, due (the throttle lets the call through),    *)
(* turn (the turn the random draws of lines 76-96 add to the heading, 0    *)
(* when neither branch is taken), and the noise of each bounce.            *)
(***************************************************************************)
\* line 107
arena_size == 500

\* line 108
half_size == arena_size \div 2

\* math.pi in the unit of headings
pi == 16

\* random.uniform(-0.2, 0.2) in the unit of headings
Noise == -1..1

\* 4 * math.sin(k * pi / 16) for k = 0..8, rounded
SinTable == <<0, 1, 2, 2, 3, 3, 4, 4, 4>>

\* 4 * math.sin of a heading in 0..2*pi
Sin(d) ==
    LET q == d % pi
        s == SinTable[(IF 2 * q <= pi THEN q ELSE pi - q) + 1]
    IN  IF d % (2 * pi) < pi THEN s ELSE -s

\* 4 * math.cos of a heading
Cos(d) == Sin((d + pi \div 2) % (2 * pi))

\* math.sin(direction) * speed * delta_time, from 4 * sin and dist, cut to
\* whole units
Along(s, dist) == IF s >= 0 THEN (s * dist) \div 4 ELSE -((-s * dist) \div 4)

\* abs
Abs(v) == IF v >= 0 THEN v ELSE -v

\* update_bot without the boundary check of lines 110-119
update_bot_unchecked(b, dist, due, turn, noise_x, noise_z) ==
    IF ~b.active THEN [bot |-> [b EXCEPT !.active = TRUE], x |-> b.x, z |-> b.z,
                        returned |-> TRUE]
    ELSE IF ~due THEN [bot |-> b, x |-> b.x, z |-> b.z, returned |-> FALSE]
    ELSE LET direction == (b.direction + turn) % (2 * pi)
             x == b.x + Along(Sin(direction), dist)
             z == b.z + Along(Cos(direction), dist)
         IN  [bot |-> [b EXCEPT !.x = x, !.z = z, !.direction = direction],
              x |-> x, z |-> z,
              returned |-> turn # 0 \/ x # b.x \/ z # b.z]

\* update_bot: the object after the call (bot), the coordinates before the
\* boundary check (x, z) and the value returned
update_bot(b, dist, due, turn, noise_x, noise_z) ==
    IF ~b.active THEN [bot |-> [b EXCEPT !.active = TRUE], x |-> b.x, z |-> b.z,
                        returned |-> TRUE]
    ELSE IF ~due THEN [bot |-> b, x |-> b.x, z |-> b.z, returned |-> FALSE]
    ELSE LET direction == (b.direction + turn) % (2 * pi)
             x == b.x + Along(Sin(direction), dist)
             z == b.z + Along(Cos(direction), dist)
             hit_x == Abs(x) > half_size
             hit_z == Abs(z) > half_size
             x1 == IF hit_x THEN half_size * (IF x > 0 THEN 1 ELSE -1) ELSE x
             d1 == IF hit_x THEN pi - direction + noise_x ELSE direction
             z1 == IF hit_z THEN half_size * (IF z > 0 THEN 1 ELSE -1) ELSE z
             d2 == IF hit_z THEN -d1 + noise_z ELSE d1
         IN  [bot |-> [b EXCEPT !.x = x1, !.z = z1, !.direction = d2 % (2 * pi)],
              x |-> x, z |-> z,
              returned |-> turn # 0 \/ hit_x \/ hit_z \/ x1 # b.x \/ z1 # b.z]

(***************************************************************************)
(* game/game_state.py: GameState.  Each method is an operator from the     *)
(* record of the object's fields to the record after the call.             *)
(***************************************************************************)
GameState ==
    [players |-> <<>>, bots |-> <<>>, eliminated_players |-> <<>>,
     game_phase |-> "waiting", current_round |-> 0, min_players |-> 2,
     bot_update_task |-> FALSE]

\* d[k] = v on a dict held as a function
Put(d, k, v) == [x \in (DOMAIN d) \cup {k} |-> IF x = k THEN v ELSE d[x]]

\* del d[k]
Del(d, k) == [x \in (DOMAIN d) \ {k} |-> d[x]]

\* x in list
InList(s, x) == \E i \in 1..Len(s) : s[i] = x

\* list.remove(x): drops the first occurrence
ListRemove(s, x) ==
    IF ~InList(s, x) THEN s
    ELSE LET k == CHOOSE i \in 1..Len(s) : s[i] = x /\ \A j \in 1..(i - 1) : s[j] # x
         IN  [i \in 1..(Len(s) - 1) |-> IF i < k THEN s[i] ELSE s[i + 1]]

add_player(gs, player_id) == [gs EXCEPT !.players = Put(gs.players, player_id, Player)]

\* the value add_player returns: True on every path
add_player_returns(gs, player_id) == TRUE

\* remove_player without its second statement
remove_player_keeps_eliminated(gs, player_id) ==
    [gs EXCEPT !.players = Del(gs.players, player_id)]

remove_player(gs, player_id) ==
    [gs EXCEPT !.players = Del(gs.players, player_id),
               !.eliminated_players = ListRemove(gs.eliminated_players, player_id)]

\* update_player_position indexing self.players without the membership test
update_player_position_unguarded(gs, player_id) == TRUE

\* update_player_position calls Player.update_position(position) with one
\* argument; the method is declared update_position(self, x, y, z), so the call
\* raises TypeError whenever the id is registered and returns when it is not.
update_player_position_raises(gs, player_id) == player_id \in DOMAIN gs.players

\* eliminate_player without the tests on eliminated_players
eliminate_player_again(gs, player_id) ==
    IF player_id \in DOMAIN gs.players
    THEN [gs EXCEPT !.players[player_id] = eliminate(@),
                    !.eliminated_players = Append(@, player_id)]
    ELSE IF player_id \in DOMAIN gs.bots
    THEN [gs EXCEPT !.bots[player_id] = eliminate(@),
                    !.eliminated_players = Append(@, player_id)]
    ELSE gs

eliminate_player(gs, player_id) ==
    IF player_id \in DOMAIN gs.players /\ ~InList(gs.eliminated_players, player_id)
    THEN [gs EXCEPT !.players[player_id] = eliminate(@),
                    !.eliminated_players = Append(@, player_id)]
    ELSE IF player_id \in DOMAIN gs.bots /\ ~InList(gs.eliminated_players, player_id)
    THEN [gs EXCEPT !.bots[player_id] = eliminate(@),
                    !.eliminated_players = Append(@, player_id)]
    ELSE gs

\* get_state raises what a to_dict call of its dict comprehensions raises
get_state_raises(gs) == \E b \in DOMAIN gs.bots : BotPlayer_to_dict_raises(gs.bots[b])

\* the dict get_state returns when no to_dict call raises; all_players is
\* {**players, **bots}: under a key held by both, the bot's entry
get_state(gs) ==
    [players |-> [id \in DOMAIN gs.players \cup DOMAIN gs.bots |->
                     IF id \in DOMAIN gs.bots THEN BotPlayer_to_dict(gs.bots[id])
                     ELSE to_dict(gs.players[id])],
     eliminated_players |-> gs.eliminated_players,
     game_phase |-> gs.game_phase,
     current_round |-> gs.current_round,
     player_count |-> Cardinality(DOMAIN gs.players) + Cardinality(DOMAIN gs.bots),
     min_players |-> gs.min_players,
     bot_count |-> Cardinality(DOMAIN gs.bots)]

can_start_game_strict(gs) ==
    Cardinality(DOMAIN gs.players) + Cardinality(DOMAIN gs.bots) > gs.min_players

can_start_game(gs) ==
    Cardinality(DOMAIN gs.players) + Cardinality(DOMAIN gs.bots) >= gs.min_players

start_game_keeps_round(gs) ==
    IF can_start_game(gs)
    THEN [gs EXCEPT !.game_phase = "playing", !.eliminated_players = <<>>]
    ELSE gs

start_game(gs) ==
    IF can_start_game(gs)
    THEN [gs EXCEPT !.game_phase = "playing", !.current_round = 1,
                    !.eliminated_players = <<>>]
    ELSE gs

end_game(gs) == [gs EXCEPT !.game_phase = "finished"]

RECURSIVE add_bots_from(_, _, _, _)
add_bots_from(gs, i, count, use_light_trails) ==
    IF i > count THEN gs
    ELSE add_bots_from(
            IF BotId(i) \in DOMAIN gs.bots THEN gs
            ELSE [gs EXCEPT !.bots = Put(gs.bots, BotId(i), BotPlayer(use_light_trails))],
            i + 1, count, use_light_trails)

\* add_bots building the population anew
add_bots_fresh(gs, count, use_light_trails) ==
    add_bots_from([gs EXCEPT !.bots = <<>>], 1, count, use_light_trails)

add_bots(gs, count, use_light_trails) == add_bots_from(gs, 1, count, use_light_trails)

remove_all_bots(gs) ==
    [gs EXCEPT !.bots = <<>>,
               !.eliminated_players =
                   SelectSeq(gs.eliminated_players, LAMBDA p : p \in DOMAIN gs.players)]

(***************************************************************************)
(* The state after construction: main.py:40-41, and no task started.       *)
(***************************************************************************)
NoEvent == [type |-> "none", player_id |-> "", position |-> NoPosition]

\* the locals of a broadcast() call that is not running
NoBcast == [message |-> NoEvent, exclude |-> "", pos |-> 0, used |-> 0, disconnected |-> <<>>]

\* a BotPlayer as its __init__ leaves it, at the position and heading drawn
NewBot(x, z, direction) ==
    [obj  |-> [x |-> x, z |-> z, direction |-> direction, active |-> TRUE],
     last |-> [x |-> x, z |-> z, returned |-> FALSE],
     n    |-> 0]

Init ==
    /\ game_state = GameState
    /\ active_connections = <<>>
    /\ conn = [w \in 1..MaxWs |-> "none"]
    /\ handlers = [w \in 1..MaxWs |->
                      [pc |-> "idle", id |-> "", player_id |-> "", reconnect |-> FALSE,
                       bc |-> NoBcast]]
    /\ removals = <<>>
    /\ inbox = [w \in 1..MaxWs |-> <<>>]
    /\ nextWs = 0
    /\ received = 0
    /\ raised = {}
    /\ lastOp = [op |-> "init", id |-> "", raised |-> FALSE, n |-> 0]
    /\ bot_tasks = <<>>
    /\ requests = <<>>
    /\ served = 0
    /\ ticks = 0
    /\ config = [BOT_COUNT |-> 0, ENABLE_BOT_LIGHT_TRAILS |-> TRUE]
    /\ bot = NewBot(0, 0, 0)

(***************************************************************************)
(* SpecSession: a GameState object under any sequence of method calls.     *)
(***************************************************************************)
Op(name, id, exc) == [op |-> name, id |-> id, raised |-> exc, n |-> lastOp.n + 1]

CallAddPlayer(id) ==
    /\ lastOp.n < MaxOps
    /\ game_state' = add_player(game_state, id)
    /\ lastOp' = Op("add_player", id, FALSE)
    /\ UNCHANGED serverVars

CallRemovePlayer(id) ==
    /\ lastOp.n < MaxOps
    /\ game_state' = remove_player(game_state, id)
    /\ lastOp' = Op("remove_player", id, FALSE)
    /\ UNCHANGED serverVars

CallUpdatePosition(id, position) ==
    /\ lastOp.n < MaxOps
    /\ game_state' = game_state
    /\ lastOp' = Op("update_player_position", id,
                    update_player_position_raises(game_state, id))
    /\ UNCHANGED serverVars

CallEliminate(id) ==
    /\ lastOp.n < MaxOps
    /\ game_state' = eliminate_player(game_state, id)
    /\ lastOp' = Op("eliminate_player", id, FALSE)
    /\ UNCHANGED serverVars

CallStartGame ==
    /\ lastOp.n < MaxOps
    /\ game_state' = start_game(game_state)
    /\ lastOp' = Op("start_game", "", FALSE)
    /\ UNCHANGED serverVars

CallEndGame ==
    /\ lastOp.n < MaxOps
    /\ game_state' = end_game(game_state)
    /\ lastOp' = Op("end_game", "", FALSE)
    /\ UNCHANGED serverVars

CallAddBots(count, use_light_trails) ==
    /\ lastOp.n < MaxOps
    /\ game_state' = add_bots(game_state, count, use_light_trails)
    /\ lastOp' = Op("add_bots", "", FALSE)
    /\ UNCHANGED serverVars

CallRemoveAllBots ==
    /\ lastOp.n < MaxOps
    /\ game_state' = remove_all_bots(game_state)
    /\ lastOp' = Op("remove_all_bots", "", FALSE)
    /\ UNCHANGED serverVars

SessionNext ==
    \/ \E id \in PlayerIds : CallAddPlayer(id)
    \/ \E id \in PlayerIds \cup BotIds : CallRemovePlayer(id)
    \/ \E id \in PlayerIds \cup BotIds : \E position \in Positions :
           CallUpdatePosition(id, position)
    \/ \E id \in PlayerIds \cup BotIds : CallEliminate(id)
    \/ CallStartGame
    \/ CallEndGame
    \/ \E count \in 0..MaxBots : \E t \in BOOLEAN : CallAddBots(count, t)
    \/ CallRemoveAllBots

SpecSession == Init /\ [][SessionNext]_vars


(***************************************************************************)
(* main.py: the connection table.  active_connections is a dict; its       *)
(* iteration order and the behaviour of an iterator over a dict that is    *)
(* changed meanwhile are those of CPython's entry table: a new key is      *)
(* appended, a deleted key leaves a hole the iterator skips, a key that    *)
(* is assigned again keeps its slot, and an iterator raises RuntimeError   *)
(* when the number of keys differs from the number at its creation.  (The  *)
(* table is compacted only by its sixth insertion, beyond MaxWs.)          *)
(***************************************************************************)
Hole == [id |-> "", ws |-> 0]

\* player_id in active_connections
Connected(ac, id) == \E i \in 1..Len(ac) : ac[i] # Hole /\ ac[i].id = id

Slot(ac, id) == CHOOSE i \in 1..Len(ac) : ac[i] # Hole /\ ac[i].id = id

\* active_connections.get(player_id); 0 stands for None
Get(ac, id) == IF Connected(ac, id) THEN ac[Slot(ac, id)].ws ELSE 0

\* active_connections[player_id] = websocket
Assign(ac, id, ws) ==
    IF Connected(ac, id) THEN [ac EXCEPT ![Slot(ac, id)].ws = ws]
    ELSE Append(ac, [id |-> id, ws |-> ws])

\* del active_connections[player_id]
Delete(ac, id) == [ac EXCEPT ![Slot(ac, id)] = Hole]

\* len(active_connections)
Used(ac) == Cardinality({i \in 1..Len(ac) : ac[i] # Hole})

(***************************************************************************)
(* The shared state a block of code reads and writes, as one record, so    *)
(* that the code between two suspension points composes into one step.     *)
(***************************************************************************)
World ==
    [game_state |-> game_state, active_connections |-> active_connections,
     conn |-> conn, inbox |-> inbox, removals |-> removals, raised |-> raised,
     bot_tasks |-> bot_tasks]

(***************************************************************************)
(* game_state.py:112-176 the handle of the bot update task.  The handle    *)
(* field is TRUE when it holds a task; the task it holds is the one        *)
(* created last, since the handle is assigned only where a task is         *)
(* created.  A cancelled task is suspended in an await of its loop (it is  *)
(* never the task that calls stop_bot_updates); CancelledError is raised   *)
(* there, passes the except Exception clauses (it is a BaseException) and  *)
(* ends the task before it runs another statement.                         *)
(***************************************************************************)
\* asyncio.create_task(bot_update_loop()): a new task that has yet to run
NewBotTask == [pc |-> "start", updates |-> <<>>, bc |-> NoBcast]

\* stop_bot_updates that clears the handle and leaves the task running
stop_bot_updates_keeps_task(w) == [w EXCEPT !.game_state.bot_update_task = FALSE]

\* stop_bot_updates whose cancel reaches only a task that is asleep
stop_bot_updates_when_idle(w) ==
    IF w.game_state.bot_update_task
    THEN [w EXCEPT !.game_state.bot_update_task = FALSE,
                   !.bot_tasks = IF @[Len(@)].pc = "bcast" THEN @
                                 ELSE SubSeq(@, 1, Len(@) - 1)]
    ELSE w

start_bot_updates(w) ==
    IF w.game_state.bot_update_task THEN w
    ELSE [w EXCEPT !.game_state.bot_update_task = TRUE,
                   !.bot_tasks = Append(@, NewBotTask)]

stop_bot_updates(w) ==
    IF w.game_state.bot_update_task
    THEN [w EXCEPT !.game_state.bot_update_task = FALSE,
                   !.bot_tasks = SubSeq(@, 1, Len(@) - 1)]
    ELSE w

Event(type, player_id, position) ==
    [type |-> type, player_id |-> player_id, position |-> position]

\* asyncio.create_task(delayed_player_removal(player_id)): the task runs to its
\* asyncio.sleep(delay_seconds)
create_task(w, player_id) ==
    [w EXCEPT !.removals = Append(@, [player_id |-> player_id, pc |-> "sleep",
                                      bc |-> NoBcast])]

(***************************************************************************)
(* main.py:312-329 broadcast.  A send is decided when it is called: to a   *)
(* closed websocket it raises at once and the loop goes on; to an open one *)
(* it delivers and suspends the caller in the await.                       *)
(***************************************************************************)
\* lines 324-329: the cleanup loop over disconnected_players
RECURSIVE broadcast_cleanup(_, _, _)
broadcast_cleanup(w, disconnected, k) ==
    IF k > Len(disconnected) THEN w
    ELSE broadcast_cleanup(
            IF Connected(w.active_connections, disconnected[k])
            THEN create_task([w EXCEPT !.active_connections = Delete(@, disconnected[k])],
                             disconnected[k])
            ELSE w,
            disconnected, k + 1)

\* lines 314-322 from entry i on, up to the next suspension
RECURSIVE broadcast_loop(_, _, _)
broadcast_loop(w, b, i) ==
    IF i > Len(w.active_connections)
    THEN [w |-> broadcast_cleanup(w, b.disconnected, 1), b |-> NoBcast, st |-> "done"]
    ELSE LET e == w.active_connections[i]
         IN  IF e = Hole \/ e.id = b.exclude THEN broadcast_loop(w, b, i + 1)
             ELSE IF w.conn[e.ws] = "open"
             THEN [w  |-> [w EXCEPT !.inbox[e.ws] = Append(@, b.message)],
                   b  |-> [b EXCEPT !.pos = i],
                   st |-> "suspended"]
             ELSE broadcast_loop(w, [b EXCEPT !.disconnected = Append(@, e.id)], i + 1)

\* the call: the iterator is created over the table as it is now
broadcast(w, message, exclude) ==
    broadcast_loop(w, [message |-> message, exclude |-> exclude, pos |-> 0,
                       used |-> Used(w.active_connections), disconnected |-> <<>>], 1)

\* the caller is resumed in its await: the iterator's next step checks the size
broadcast_resume(w, b) ==
    IF Used(w.active_connections) # b.used
    THEN [w  |-> [w EXCEPT !.raised = @ \cup {[message |-> b.message,
                                               disconnected |-> b.disconnected]}],
          b  |-> NoBcast,
          st |-> "raised"]
    ELSE broadcast_loop(w, b, b.pos + 1)

(***************************************************************************)
(* main.py:133-287 websocket_endpoint.  w is the world, t the task's       *)
(* locals (pc: where it is suspended; player_id: its local variable), ws   *)
(* its websocket.  Each operator runs the code from one point on to the    *)
(* next suspension and returns the world and the locals there.             *)
(***************************************************************************)
\* the coroutine returns (or its exception leaves it): the ASGI server closes
\* the socket of a finished endpoint
Return(w, t, ws) ==
    [w |-> [w EXCEPT !.conn[ws] = "closed"],
     t |-> [t EXCEPT !.pc = "done", !.bc = NoBcast]]

\* lines 281-287 after the player_left broadcast has suspended, ended or raised
AfterLeft(r, t, ws) ==
    IF r.st = "suspended" THEN [w |-> r.w, t |-> [t EXCEPT !.pc = "left_bcast", !.bc = r.b]]
    ELSE IF r.st = "done" THEN Return(create_task(r.w, t.player_id), t, ws)
    ELSE Return(r.w, t, ws)

\* lines 275-287: the finally block
Finally(w, t, ws) ==
    IF /\ Connected(w.active_connections, t.player_id)
       /\ Get(w.active_connections, t.player_id) = ws
    THEN AfterLeft(
            broadcast([w EXCEPT !.active_connections = Delete(@, t.player_id),
                                !.game_state = remove_player(@, t.player_id)],
                      Event("player_left", t.player_id, NoPosition), ""),
            t, ws)
    ELSE Return(create_task(w, t.player_id), t, ws)

\* lines 188-269 after the broadcast of a message branch: back to receive_text,
\* or except Exception: break
AfterMessage(r, t, ws) ==
    IF r.st = "suspended" THEN [w |-> r.w, t |-> [t EXCEPT !.pc = "msg_bcast", !.bc = r.b]]
    ELSE IF r.st = "done" THEN [w |-> r.w, t |-> [t EXCEPT !.pc = "recv", !.bc = NoBcast]]
    ELSE Finally(r.w, t, ws)

\* an inbound text frame: json is whether json.loads accepts it, type the value
\* of message["type"] ("" when the key is missing), data whether message["data"]
\* exists, position and player_id the keys of data ("" / NoPosition: missing)
Message(json, type, data, position, player_id) ==
    [json |-> json, type |-> type, data |-> data, position |-> position,
     player_id |-> player_id]

\* lines 192-262: one received message
OnMessage(w, t, ws, m) ==
    IF ~m.json \/ m.type = "" THEN Finally(w, t, ws)
    ELSE IF m.type = "player_move"
    THEN IF ~m.data \/ m.position = NoPosition THEN Finally(w, t, ws)
         ELSE IF update_player_position_raises(w.game_state, t.player_id)
         THEN Finally(w, t, ws)
         ELSE AfterMessage(broadcast(w, Event("player_moved", t.player_id, m.position),
                                     t.player_id), t, ws)
    ELSE IF m.type = "player_eliminated"
    THEN AfterMessage(
            broadcast([w EXCEPT !.game_state = eliminate_player(@, t.player_id)],
                      Event("player_eliminated", t.player_id, NoPosition), ""),
            t, ws)
    ELSE IF m.type = "player_kill"
    THEN IF ~m.data THEN Finally(w, t, ws)
         ELSE AfterMessage(broadcast(w, Event("player_kill", "", NoPosition), ""), t, ws)
    ELSE IF m.type = "chat_message"
    THEN IF ~m.data THEN Finally(w, t, ws)
         ELSE LET id == IF m.player_id = "" THEN Unknown ELSE m.player_id
              IN  AfterMessage(broadcast(w, Event("chat_message", id, NoPosition), ""),
                               [t EXCEPT !.player_id = id], ws)
    ELSE IF m.type = "player_disconnect" THEN Finally(w, t, ws)
    ELSE [w |-> w, t |-> t]

\* lines 172-190: the snapshot is sent and the handler waits in receive_text
SendState(w, t, ws) ==
    IF get_state_raises(w.game_state) THEN Finally(w, t, ws)
    ELSE IF w.conn[ws] = "open"
    THEN [w |-> [w EXCEPT !.inbox[ws] =
                     Append(@, [type |-> "game_state", player_id |-> "",
                                position |-> NoPosition,
                                data |-> get_state(w.game_state)])],
          t |-> [t EXCEPT !.pc = "recv", !.bc = NoBcast]]
    ELSE Finally(w, t, ws)

\* lines 167-170 after the player_joined broadcast
AfterJoined(r, t, ws) ==
    IF r.st = "suspended" THEN [w |-> r.w, t |-> [t EXCEPT !.pc = "join_bcast", !.bc = r.b]]
    ELSE IF r.st = "done" THEN SendState(r.w, t, ws)
    ELSE Finally(r.w, t, ws)

\* line 161: GameState has no method update_player, the call raises
\* AttributeError, which the outer except catches
update_player_raises == TRUE

\* lines 158-170
AddOrUpdate(w, t, ws, is_reconnection) ==
    IF is_reconnection
    THEN IF update_player_raises THEN Finally(w, t, ws) ELSE SendState(w, t, ws)
    ELSE AfterJoined(broadcast([w EXCEPT !.game_state = add_player(@, t.player_id)],
                               Event("player_joined", t.player_id, NoPosition),
                               t.player_id),
                     t, ws)

\* lines 141-156, from the accepted connection on
OnConnect(w, t, ws) ==
    LET is_reconnection == Connected(w.active_connections, t.player_id)
        old_connection  == Get(w.active_connections, t.player_id)
        w1 == [w EXCEPT !.active_connections = Assign(@, t.player_id, ws),
                        !.conn[ws] = "open"]
    IN  IF is_reconnection /\ w.conn[old_connection] = "open"
        THEN [w |-> [w1 EXCEPT !.conn[old_connection] = "closed"],
              t |-> [t EXCEPT !.pc = "close_old"]]
        ELSE AddOrUpdate(w1, t, ws, is_reconnection)

(***************************************************************************)
(* main.py:290-310 delayed_player_removal, task k of removals.             *)
(***************************************************************************)
\* the task ends: it leaves the list of pending tasks
Finished(w, k) ==
    [w EXCEPT !.removals = [j \in 1..(Len(@) - 1) |-> IF j < k THEN @[j] ELSE @[j + 1]]]

\* lines 303-310 after the player_left broadcast
AfterRemoved(r, k) ==
    IF r.st = "suspended"
    THEN [r.w EXCEPT !.removals[k].pc = "bcast", !.removals[k].bc = r.b]
    ELSE IF r.st = "done"
    THEN Finished(IF Used(r.w.active_connections) = 0 /\ r.w.game_state.bot_update_task
                  THEN stop_bot_updates(r.w)
                  ELSE r.w, k)
    ELSE Finished(r.w, k)

\* lines 295-302 when the sleep is over
OnTimer(w, k) ==
    LET player_id == w.removals[k].player_id
    IN  IF ~Connected(w.active_connections, player_id)
        THEN AfterRemoved(broadcast([w EXCEPT !.game_state = remove_player(@, player_id)],
                                    Event("player_left", player_id, NoPosition), ""), k)
        ELSE Finished(w, k)

(***************************************************************************)
(* Spec: the tasks of the server, interleaved at their suspension points.  *)
(***************************************************************************)
\* the inbound frames the clients send
Messages ==
    {Message(FALSE, "", FALSE, NoPosition, ""),
     Message(TRUE, "", TRUE, NoPosition, ""),
     Message(TRUE, "player_move", TRUE, NoPosition, ""),
     Message(TRUE, "player_move", FALSE, NoPosition, ""),
     Message(TRUE, "player_eliminated", TRUE, NoPosition, ""),
     Message(TRUE, "player_kill", TRUE, NoPosition, ""),
     Message(TRUE, "player_disconnect", TRUE, NoPosition, ""),
     Message(TRUE, "ping", TRUE, NoPosition, "")}
    \cup {Message(TRUE, "player_move", TRUE, p, "") : p \in Positions}
    \cup {Message(TRUE, "chat_message", TRUE, NoPosition, id) : id \in PlayerIds \cup {""}}

Commit(w) ==
    /\ game_state' = w.game_state
    /\ active_connections' = w.active_connections
    /\ conn' = w.conn
    /\ inbox' = w.inbox
    /\ removals' = w.removals
    /\ raised' = w.raised
    /\ bot_tasks' = w.bot_tasks

\* an earlier websocket of id has closed and the 5 s since then are not over: its
\* handler has yet to see the close, or a delayed removal for id is still asleep
InGrace(id) ==
    \E old \in 1..nextWs :
        /\ handlers[old].id = id
        /\ conn[old] = "closed"
        /\ \/ handlers[old].pc # "done"
           \/ \E k \in 1..Len(removals) :
                  removals[k].player_id = id /\ removals[k].pc = "sleep"

\* a client connects to /ws/{id} and the handler runs from accept on
Connect(id) ==
    /\ nextWs < MaxWs
    /\ LET ws == nextWs + 1
           r  == OnConnect(World, [handlers[ws] EXCEPT !.id = id, !.player_id = id,
                                                      !.reconnect = InGrace(id)], ws)
       IN  /\ Commit(r.w)
           /\ handlers' = [handlers EXCEPT ![ws] = r.t]
    /\ nextWs' = nextWs + 1
    /\ UNCHANGED <<received, lastOp, adminVars>>

\* the handler is resumed after await old_connection.close()
OldClosed(ws) ==
    /\ handlers[ws].pc = "close_old"
    /\ LET r == AddOrUpdate(World, handlers[ws], ws, TRUE)
       IN  /\ Commit(r.w)
           /\ handlers' = [handlers EXCEPT ![ws] = r.t]
    /\ UNCHANGED <<nextWs, received, lastOp, adminVars>>

\* the handler is resumed in a send of one of its broadcasts
HandlerSent(ws) ==
    /\ handlers[ws].pc \in {"join_bcast", "msg_bcast", "left_bcast"}
    /\ LET t == handlers[ws]
           b == broadcast_resume(World, t.bc)
           r == IF t.pc = "join_bcast" THEN AfterJoined(b, t, ws)
                ELSE IF t.pc = "msg_bcast" THEN AfterMessage(b, t, ws)
                ELSE AfterLeft(b, t, ws)
       IN  /\ Commit(r.w)
           /\ handlers' = [handlers EXCEPT ![ws] = r.t]
    /\ UNCHANGED <<nextWs, received, lastOp, adminVars>>

\* receive_text returns message m of the client
Receive(ws, m) ==
    /\ handlers[ws].pc = "recv"
    /\ conn[ws] = "open"
    /\ received < MaxMessages
    /\ LET r == OnMessage(World, handlers[ws], ws, m)
       IN  /\ Commit(r.w)
           /\ handlers' = [handlers EXCEPT ![ws] = r.t]
    /\ received' = received + 1
    /\ UNCHANGED <<nextWs, lastOp, adminVars>>

\* receive_text raises WebSocketDisconnect: lines 264-266, then the finally block
Disconnected(ws) ==
    /\ handlers[ws].pc = "recv"
    /\ conn[ws] = "closed"
    /\ LET r == Finally(World, handlers[ws], ws)
       IN  /\ Commit(r.w)
           /\ handlers' = [handlers EXCEPT ![ws] = r.t]
    /\ UNCHANGED <<nextWs, received, lastOp, adminVars>>

\* the peer of an open websocket goes away
Drop(ws) ==
    /\ conn[ws] = "open"
    /\ conn' = [conn EXCEPT ![ws] = "closed"]
    /\ UNCHANGED <<game_state, active_connections, handlers, removals, inbox, nextWs,
                   received, raised, lastOp, bot_tasks, adminVars>>

\* the sleep of the oldest sleeping delayed_player_removal task is over (all
\* tasks sleep delay_seconds = 5, so they wake in the order they were created)
Timer(k) ==
    /\ removals[k].pc = "sleep"
    /\ \A j \in 1..(k - 1) : removals[j].pc # "sleep"
    /\ Commit(OnTimer(World, k))
    /\ UNCHANGED <<handlers, nextWs, received, lastOp, adminVars>>

\* a delayed_player_removal task is resumed in a send of its broadcast
RemovalSent(k) ==
    /\ removals[k].pc = "bcast"
    /\ Commit(AfterRemoved(broadcast_resume(World, removals[k].bc), k))
    /\ UNCHANGED <<handlers, nextWs, received, lastOp, adminVars>>

Next ==
    \/ \E id \in PlayerIds : Connect(id)
    \/ \E ws \in 1..MaxWs : OldClosed(ws)
    \/ \E ws \in 1..MaxWs : HandlerSent(ws)
    \/ \E ws \in 1..MaxWs : \E m \in Messages : Receive(ws, m)
    \/ \E ws \in 1..MaxWs : Disconnected(ws)
    \/ \E ws \in 1..MaxWs : Drop(ws)
    \/ \E k \in 1..Len(removals) : Timer(k)
    \/ \E k \in 1..Len(removals) : RemovalSent(k)

Spec == Init /\ [][Next]_vars

(***************************************************************************)
(* game_state.py:121-166 bot_update_loop, task k of bot_tasks.  t holds    *)
(* the task's locals: pc (start: created and not run yet, bcast: suspended *)
(* in a send, sleep: in asyncio.sleep(0.1), backoff: in asyncio.sleep(1)   *)
(* of the except clause), updates: the entries of bot_updates that are     *)
(* still to be broadcast.  The motion of a bot is reduced to the result of *)
(* update_bot, position_changed.                                           *)
(***************************************************************************)
\* the ids of a set of bots in the order of the bots dict: add_bots inserts
\* Bot_1, Bot_2, ... and bots leave the dict only all at once
RECURSIVE InOrder(_, _)
InOrder(ids, i) ==
    IF i > MaxBots THEN <<>>
    ELSE (IF BotId(i) \in ids THEN <<BotId(i)>> ELSE <<>>) \o InOrder(ids, i + 1)

\* lines 144-166: the broadcasts of bot_updates, then the sleep; a broadcast
\* that raises leaves the try block for the except clause
RECURSIVE broadcast_updates(_, _, _)
RECURSIVE AfterMoved(_, _, _)
broadcast_updates(w, t, k) ==
    IF t.updates = <<>>
    THEN [w EXCEPT !.bot_tasks[k] = [pc |-> "sleep", updates |-> <<>>, bc |-> NoBcast]]
    ELSE AfterMoved(broadcast(w, Event("player_moved", Head(t.updates), NoPosition), ""),
                    [t EXCEPT !.updates = Tail(@)], k)

\* the loop without its except clause: a broadcast that raises ends the task
AfterMoved_fatal(r, t, k) ==
    IF r.st = "suspended" THEN [r.w EXCEPT !.bot_tasks[k] = [t EXCEPT !.pc = "bcast", !.bc = r.b]]
    ELSE IF r.st = "done" THEN broadcast_updates(r.w, t, k)
    ELSE [r.w EXCEPT !.bot_tasks[k] = [pc |-> "done", updates |-> <<>>, bc |-> NoBcast]]

AfterMoved(r, t, k) ==
    IF r.st = "suspended" THEN [r.w EXCEPT !.bot_tasks[k] = [t EXCEPT !.pc = "bcast", !.bc = r.b]]
    ELSE IF r.st = "done" THEN broadcast_updates(r.w, t, k)
    ELSE [r.w EXCEPT !.bot_tasks[k] = [pc |-> "backoff", updates |-> <<>>, bc |-> NoBcast]]

\* lines 124-142: one iteration from its start; changed are the bots whose
\* update_bot returns True
bot_update_loop(w, k, changed) ==
    broadcast_updates(w, [w.bot_tasks[k] EXCEPT !.updates = InOrder(changed, 1)], k)

(***************************************************************************)
(* main.py:44-127 the HTTP endpoints of the bots.  q holds the locals of   *)
(* one request: pc (where it is suspended), pos and used (the iterator of  *)
(* game_state.bots.items(): entries passed, size of the dict when the      *)
(* iterator was made), bot_ids (the ids remove_bots has yet to announce),  *)
(* then_add (the request is a settings update that goes on with add_bots). *)
(* A request whose endpoint returns or raises is done.                     *)
(***************************************************************************)
NewRequest(count, use_light_trails, then_add) ==
    [pc |-> "run", bc |-> NoBcast, pos |-> 0, used |-> 0, bot_ids |-> <<>>,
     count |-> count, use_light_trails |-> use_light_trails, then_add |-> then_add]

Done(q) == [q EXCEPT !.pc = "done", !.bc = NoBcast]

\* the player_joined event of a bot
BotJoined(bot_id, use_light_trails) ==
    [type |-> "player_joined", player_id |-> bot_id, position |-> NoPosition,
     is_bot |-> TRUE, use_light_trails |-> use_light_trails]

\* the player_updated event of a bot
BotUpdated(bot_id, use_light_trails) ==
    [type |-> "player_updated", player_id |-> bot_id, position |-> NoPosition,
     use_light_trails |-> use_light_trails]

\* lines 96-105 of add_bots: the iterator's next step raises RuntimeError when
\* the dict has changed size, else the next bot is announced
RECURSIVE bots_join_next(_, _)
RECURSIVE BotsJoined(_, _)
bots_join_next(w, q) ==
    IF Cardinality(DOMAIN w.game_state.bots) # q.used THEN [w |-> w, q |-> Done(q)]
    ELSE IF q.pos >= q.used THEN [w |-> w, q |-> Done(q)]
    ELSE BotsJoined(
            broadcast(w, BotJoined(BotId(q.pos + 1),
                                   w.game_state.bots[BotId(q.pos + 1)].use_light_trails), ""),
            [q EXCEPT !.pos = @ + 1])

BotsJoined(r, q) ==
    IF r.st = "suspended" THEN [w |-> r.w, q |-> [q EXCEPT !.pc = "join_bcast", !.bc = r.b]]
    ELSE IF r.st = "done" THEN bots_join_next(r.w, q)
    ELSE [w |-> r.w, q |-> Done(q)]

\* lines 85-96 of add_bots
post_bots_add(w, q) ==
    LET w1 == [w EXCEPT !.game_state = add_bots(@, q.count, q.use_light_trails)]
        w2 == IF ~w1.game_state.bot_update_task THEN start_bot_updates(w1) ELSE w1
    IN  bots_join_next(w2, [q EXCEPT !.pos = 0,
                                     !.used = Cardinality(DOMAIN w2.game_state.bots)])

\* lines 121-127 of remove_bots; update_performance_settings goes on with add_bots
RECURSIVE bots_left_next(_, _)
RECURSIVE BotsLeft(_, _)
bots_left_next(w, q) ==
    IF q.bot_ids = <<>>
    THEN IF q.then_add THEN post_bots_add(w, q) ELSE [w |-> w, q |-> Done(q)]
    ELSE BotsLeft(broadcast(w, Event("player_left", Head(q.bot_ids), NoPosition), ""),
                  [q EXCEPT !.bot_ids = Tail(@)])

BotsLeft(r, q) ==
    IF r.st = "suspended" THEN [w |-> r.w, q |-> [q EXCEPT !.pc = "left_bcast", !.bc = r.b]]
    ELSE IF r.st = "done" THEN bots_left_next(r.w, q)
    ELSE [w |-> r.w, q |-> Done(q)]

\* lines 110-120 of remove_bots
post_bots_remove(w, q) ==
    LET bot_ids == InOrder(DOMAIN w.game_state.bots, 1)
        w1 == [w EXCEPT !.game_state = remove_all_bots(@)]
        w2 == IF w1.game_state.bot_update_task /\ DOMAIN w1.game_state.bots = {}
              THEN stop_bot_updates(w1) ELSE w1
    IN  bots_left_next(w2, [q EXCEPT !.bot_ids = bot_ids])

\* lines 67-80 of update_performance_settings: the trail setting of every bot
RECURSIVE trails_next(_, _)
RECURSIVE TrailsUpdated(_, _)
trails_next(w, q) ==
    IF Cardinality(DOMAIN w.game_state.bots) # q.used THEN [w |-> w, q |-> Done(q)]
    ELSE IF q.pos >= q.used THEN [w |-> w, q |-> Done(q)]
    ELSE TrailsUpdated(
            broadcast([w EXCEPT !.game_state.bots[BotId(q.pos + 1)].use_light_trails =
                                    q.use_light_trails],
                      BotUpdated(BotId(q.pos + 1), q.use_light_trails), ""),
            [q EXCEPT !.pos = @ + 1])

TrailsUpdated(r, q) ==
    IF r.st = "suspended" THEN [w |-> r.w, q |-> [q EXCEPT !.pc = "updated_bcast", !.bc = r.b]]
    ELSE IF r.st = "done" THEN trails_next(r.w, q)
    ELSE [w |-> r.w, q |-> Done(q)]

\* main.py:86 the default of the use_light_trails parameter of add_bots
ENABLE_BOT_LIGHT_TRAILS == TRUE

\* an optional field of a request body: <<>> when it is None
Optional(S) == {<<>>} \cup {<<x>> : x \in S}

\* performance_config.py:20-42 update_config without config_updates
update_config(c, settings) ==
    [BOT_COUNT |-> IF settings.bot_count # <<>> THEN settings.bot_count[1] ELSE c.BOT_COUNT,
     ENABLE_BOT_LIGHT_TRAILS |->
         IF settings.enable_light_trails # <<>> THEN settings.enable_light_trails[1]
         ELSE c.ENABLE_BOT_LIGHT_TRAILS]

\* lines 44-82 with updated_config = c
update_performance_settings(w, c, settings) ==
    IF settings.bot_count # <<>>
    THEN post_bots_remove(w, NewRequest(c.BOT_COUNT, c.ENABLE_BOT_LIGHT_TRAILS, TRUE))
    ELSE IF settings.enable_light_trails # <<>>
    THEN trails_next(w, [NewRequest(0, settings.enable_light_trails[1], FALSE)
                            EXCEPT !.used = Cardinality(DOMAIN w.game_state.bots)])
    ELSE [w |-> w, q |-> Done(NewRequest(0, c.ENABLE_BOT_LIGHT_TRAILS, FALSE))]

(***************************************************************************)
(* SpecBots: the handlers and removals of Spec, with clients that send no  *)
(* frames, next to the bot update task and the requests to its endpoints.  *)
(* With MaxBotWs = 1 websocket the broadcasts of a handler and of a        *)
(* delayed removal have no recipient (the table never holds a second       *)
(* entry), so these tasks are never suspended in a send: their resumptions *)
(* HandlerSent and RemovalSent are steps of Spec only.                     *)
(***************************************************************************)
\* the bodies of the requests to /performance/settings: with and without a
\* bot count, with and without a trail setting that differs from the default
Settings ==
    {[bot_count |-> n, enable_light_trails |-> e] :
        n \in Optional({MaxBots}), e \in Optional({FALSE})}

\* a request was accepted and its endpoint has run to r
Accepted(r) ==
    /\ Commit(r.w)
    /\ requests' = IF r.q.pc = "done" THEN requests ELSE Append(requests, r.q)
    /\ served' = served + 1

\* POST /bots/add
AddBots(count, use_light_trails) ==
    /\ served < MaxRequests
    /\ Accepted(post_bots_add(World, NewRequest(count, use_light_trails, FALSE)))
    /\ UNCHANGED <<handlers, nextWs, received, lastOp, ticks, config, bot>>

\* POST /bots/remove
RemoveBots ==
    /\ served < MaxRequests
    /\ Accepted(post_bots_remove(World, NewRequest(0, FALSE, FALSE)))
    /\ UNCHANGED <<handlers, nextWs, received, lastOp, ticks, config, bot>>

\* POST /performance/settings
UpdateSettings(settings) ==
    /\ served < MaxRequests
    /\ config' = update_config(config, settings)
    /\ Accepted(update_performance_settings(World, update_config(config, settings),
                                            settings))
    /\ UNCHANGED <<handlers, nextWs, received, lastOp, ticks, bot>>

\* request i is resumed in a send of one of its broadcasts
RequestSent(i) ==
    /\ requests[i].pc \in {"join_bcast", "left_bcast", "updated_bcast"}
    /\ LET q == requests[i]
           b == broadcast_resume(World, q.bc)
           r == IF q.pc = "join_bcast" THEN BotsJoined(b, q)
                ELSE IF q.pc = "left_bcast" THEN BotsLeft(b, q)
                ELSE TrailsUpdated(b, q)
       IN  /\ Commit(r.w)
           /\ requests' = IF r.q.pc = "done"
                          THEN [j \in 1..(Len(requests) - 1) |->
                                   IF j < i THEN requests[j] ELSE requests[j + 1]]
                          ELSE [requests EXCEPT ![i] = r.q]
    /\ UNCHANGED <<handlers, nextWs, received, lastOp, served, ticks, config, bot>>

\* bot task k runs an iteration: for the first time, or its sleep is over
Tick(k, changed) ==
    /\ ticks < MaxTicks
    /\ bot_tasks[k].pc \in {"start", "sleep", "backoff"}
    /\ Commit(bot_update_loop(World, k, changed))
    /\ ticks' = ticks + 1
    /\ UNCHANGED <<handlers, nextWs, received, lastOp, requests, served, config, bot>>

\* bot task k is resumed in a send of one of its broadcasts
TickSent(k) ==
    /\ bot_tasks[k].pc = "bcast"
    /\ Commit(AfterMoved(broadcast_resume(World, bot_tasks[k].bc), bot_tasks[k], k))
    /\ UNCHANGED <<handlers, nextWs, received, lastOp, adminVars>>

\* a client connects while the server manages bots
BotsConnect(id) ==
    /\ nextWs < MaxBotWs
    /\ Connect(id)

\* the bots an iteration updates: those not in eliminated_players
Updated == {b \in DOMAIN game_state.bots : ~InList(game_state.eliminated_players, b)}

BotsNext ==
    \/ \E id \in PlayerIds : BotsConnect(id)
    \/ \E ws \in 1..MaxWs : Disconnected(ws)
    \/ \E ws \in 1..MaxWs : Drop(ws)
    \/ \E k \in 1..Len(removals) : Timer(k)
    \/ \E count \in 0..MaxBots : AddBots(count, ENABLE_BOT_LIGHT_TRAILS)
    \/ RemoveBots
    \/ \E settings \in Settings : UpdateSettings(settings)
    \/ \E i \in 1..Len(requests) : RequestSent(i)
    \/ \E k \in 1..Len(bot_tasks) : \E changed \in SUBSET Updated : Tick(k, changed)
    \/ \E k \in 1..Len(bot_tasks) : TickSent(k)

SpecBots == Init /\ [][BotsNext]_vars

(***************************************************************************)
(* SpecRejoin: one bot population, added by a request to /bots/add, next   *)
(* to the connections of Spec (clients that come and go, send no frames).  *)
(***************************************************************************)
Populate(count) ==
    /\ served < MaxPopulations
    /\ AddBots(count, ENABLE_BOT_LIGHT_TRAILS)

RejoinNext ==
    \/ \E id \in PlayerIds : Connect(id)
    \/ \E ws \in 1..MaxWs : OldClosed(ws)
    \/ \E ws \in 1..MaxWs : HandlerSent(ws)
    \/ \E ws \in 1..MaxWs : Disconnected(ws)
    \/ \E ws \in 1..MaxWs : Drop(ws)
    \/ \E k \in 1..Len(removals) : Timer(k)
    \/ \E k \in 1..Len(removals) : RemovalSent(k)
    \/ \E count \in 1..MaxBots : Populate(count)
    \/ \E i \in 1..Len(requests) : RequestSent(i)

SpecRejoin == Init /\ [][RejoinNext]_vars

(***************************************************************************)
(* SpecElim: one bot population and its update task next to one client     *)
(* that stays connected and sends the frames through which a bot is        *)
(* eliminated on the server: chat_message with the name of a bot as        *)
(* data.player_id (after which the handler acts for that name, main.py:244)*)
(* and player_eliminated.                                                  *)
(***************************************************************************)
BotMessages ==
    {Message(TRUE, "player_eliminated", TRUE, NoPosition, "")}
    \cup {Message(TRUE, "chat_message", TRUE, NoPosition, id) : id \in BotIds}

\* bot task k runs an iteration next to the client
Round(k, changed) ==
    /\ ticks < MaxRounds
    /\ Tick(k, changed)

ElimNext ==
    \/ \E id \in PlayerIds : BotsConnect(id)
    \/ \E ws \in 1..MaxWs : \E m \in BotMessages : Receive(ws, m)
    \/ \E ws \in 1..MaxWs : HandlerSent(ws)
    \/ \E count \in 1..MaxBots : Populate(count)
    \/ \E i \in 1..Len(requests) : RequestSent(i)
    \/ \E k \in 1..Len(bot_tasks) : \E changed \in SUBSET Updated : Round(k, changed)
    \/ \E k \in 1..Len(bot_tasks) : TickSent(k)

SpecElim == Init /\ [][ElimNext]_vars

(***************************************************************************)
(* SpecMotion: update_bot called on one bot, from any start inside the     *)
(* arena.                                                                  *)
(***************************************************************************)
\* positions drawn by __init__: the corners, the edges and the inside
StartCoordinates == {-half_size, -half_size + 5, 0, half_size - 5, half_size}

\* speed * delta_time: a call with no time passed, a tick of 0.1 s, a tick
\* after the backoff
Dists == {0, 4, 40}

\* the turns of lines 76-96: none, pi/8..pi/4 and pi/4..pi/2 either way
Turns == {0, -2, 4, -8}

MotionInit ==
    /\ game_state = GameState
    /\ active_connections = <<>>
    /\ conn = [w \in 1..MaxWs |-> "none"]
    /\ handlers = [w \in 1..MaxWs |->
                      [pc |-> "idle", id |-> "", player_id |-> "", reconnect |-> FALSE,
                       bc |-> NoBcast]]
    /\ removals = <<>>
    /\ inbox = [w \in 1..MaxWs |-> <<>>]
    /\ nextWs = 0
    /\ received = 0
    /\ raised = {}
    /\ lastOp = [op |-> "init", id |-> "", raised |-> FALSE, n |-> 0]
    /\ bot_tasks = <<>>
    /\ requests = <<>>
    /\ served = 0
    /\ ticks = 0
    /\ config = [BOT_COUNT |-> 0, ENABLE_BOT_LIGHT_TRAILS |-> TRUE]
    /\ \E x, z \in StartCoordinates : \E direction \in 0..(2 * pi - 1) :
           bot = NewBot(x, z, direction)

UpdateBot(dist, due, turn, noise_x, noise_z) ==
    /\ bot.n < MaxUpdates
    /\ LET r == update_bot(bot.obj, dist, due, turn, noise_x, noise_z)
       IN  bot' = [obj  |-> r.bot,
                   last |-> [x |-> r.x, z |-> r.z, returned |-> r.returned],
                   n    |-> bot.n + 1]
    /\ UNCHANGED <<game_state, active_connections, conn, handlers, removals, inbox,
                   nextWs, received, raised, lastOp, bot_tasks, requests, served,
                   ticks, config>>

MotionNext ==
    \E dist \in Dists : \E due \in BOOLEAN : \E turn \in Turns :
        \E noise_x, noise_z \in Noise : UpdateBot(dist, due, turn, noise_x, noise_z)

SpecMotion == MotionInit /\ [][MotionNext]_vars

(***************************************************************************)
(* Claims about the session registry, checked under SpecSession.           *)
(***************************************************************************)
Participants(gs) == Cardinality(DOMAIN gs.players) + Cardinality(DOMAIN gs.bots)

\* C1: a start_game call with fewer than min_players participants (humans plus
\* bots) changes no field of the session, so a waiting session stays waiting;
\* with min_players participants or more it yields phase playing, round 1 and an
\* empty eliminated list.
C1_StartGame ==
    [][lastOp'.op = "start_game" /\ lastOp'.n = lastOp.n + 1 =>
          IF Participants(game_state) < game_state.min_players
          THEN game_state' = game_state
          ELSE /\ game_state'.game_phase = "playing"
               /\ game_state'.current_round = 1
               /\ game_state'.eliminated_players = <<>>]_vars

\* start_game has just run on a session of exactly min_players participants, one
\* of them eliminated before the start
C1_Witness ==
    /\ lastOp.op = "start_game"
    /\ Participants(game_state) = game_state.min_players
    /\ game_state.game_phase = "playing"
    /\ \E id \in DOMAIN game_state.players : game_state.players[id].is_eliminated

\* C2: the phase only moves forward: once it has left waiting it never is
\* waiting again, and a finished session never becomes playing again.
C2_PhaseForward ==
    [][/\ game_state.game_phase # "waiting" => game_state'.game_phase # "waiting"
       /\ game_state.game_phase = "finished" => game_state'.game_phase # "playing"]_vars

\* C3 as stated: the round is 0 exactly in the waiting phase.
C3_RoundZeroIffWaiting ==
    game_state.current_round = 0 <=> game_state.game_phase = "waiting"

\* C3 amended: the round is 0 throughout waiting, and a round of 0 is found
\* outside waiting only in a finished session (one ended before any start): a
\* playing session never has round 0.
C3_RoundZero ==
    /\ game_state.game_phase = "waiting" => game_state.current_round = 0
    /\ game_state.current_round = 0 => game_state.game_phase \in {"waiting", "finished"}

\* end_game has run on a session that was never started
C3_Witness ==
    /\ lastOp.op = "end_game"
    /\ game_state.game_phase = "finished"
    /\ game_state.current_round = 0

\* C11: update_player_position(id, position) on a registered human raises no
\* error, stores exactly the given position for that participant, and changes
\* nothing else of the session.
C11_UpdatePosition ==
    [][\A id \in PlayerIds : \A position \in Positions :
          CallUpdatePosition(id, position) /\ id \in DOMAIN game_state.players =>
              /\ ~lastOp'.raised
              /\ game_state' = [game_state EXCEPT !.players[id].position = position]]_vars

\* a list holds no element twice
NoDuplicates(s) == \A i, j \in 1..Len(s) : s[i] = s[j] => i = j

\* C12: in every session state and for every id, eliminating the id twice gives
\* the session that eliminating it once gives, and the eliminated list never
\* holds an id twice.
C12_EliminateIdempotent ==
    /\ NoDuplicates(game_state.eliminated_players)
    /\ \A id \in PlayerIds \cup BotIds :
           eliminate_player(eliminate_player(game_state, id), id)
               = eliminate_player(game_state, id)

\* eliminate_player has run for a registered bot after a human was eliminated:
\* a further call for either id meets an id already in the list
C12_Witness ==
    /\ lastOp.op = "eliminate_player"
    /\ lastOp.id \in DOMAIN game_state.bots
    /\ Len(game_state.eliminated_players) = 2
    /\ game_state.eliminated_players[2] = lastOp.id
    /\ game_state.eliminated_players[1] \in DOMAIN game_state.players

\* the is_eliminated flag of a registered human or bot
IsEliminated(gs, id) ==
    \/ id \in DOMAIN gs.players /\ gs.players[id].is_eliminated
    \/ id \in DOMAIN gs.bots /\ gs.bots[id].is_eliminated

\* C13: once the is_eliminated flag of an id is true, no step sets it back to
\* false while the id stays registered.
C13_EliminatedMonotonic ==
    [][\A id \in PlayerIds \cup BotIds :
          /\ IsEliminated(game_state, id)
          /\ id \in DOMAIN game_state'.players \cup DOMAIN game_state'.bots
          => IsEliminated(game_state', id)]_vars

\* C14: after add_player(id), whether or not id was registered before, the
\* registry holds id and no other new id, the snapshot taken at once is
\* returned and shows id with is_eliminated false and score 0, and the records
\* of the other participants and the bots are unchanged.
C14_AddPlayer ==
    [][\A id \in PlayerIds :
          lastOp'.op = "add_player" /\ lastOp'.id = id /\ lastOp'.n = lastOp.n + 1 =>
              /\ DOMAIN game_state'.players = DOMAIN game_state.players \cup {id}
              /\ ~get_state_raises(game_state')
              /\ id \in DOMAIN get_state(game_state').players
              /\ ~get_state(game_state').players[id].is_eliminated
              /\ get_state(game_state').players[id].score = 0
              /\ \A o \in DOMAIN game_state.players \ {id} :
                     game_state'.players[o] = game_state.players[o]
              /\ game_state'.bots = game_state.bots]_vars

\* GameState defines no max_players; the cap the claim is checked for is the
\* one that the ids of the model can exceed
max_players == Cardinality(PlayerIds) - 1

\* C15: add_player returns True and registers the id while fewer than
\* max_players humans are registered; at max_players, add_player for a new id
\* returns False and leaves the registry as it was.
C15_ParticipantCap ==
    [][\A id \in PlayerIds :
          lastOp'.op = "add_player" /\ lastOp'.id = id /\ lastOp'.n = lastOp.n + 1 =>
              IF Cardinality(DOMAIN game_state.players) < max_players
              THEN /\ add_player_returns(game_state, id)
                   /\ id \in DOMAIN game_state'.players
              ELSE id \notin DOMAIN game_state.players =>
                       /\ ~add_player_returns(game_state, id)
                       /\ game_state'.players = game_state.players]_vars

\* the entries of the eliminated list that are registered humans
EliminatedHumans(gs) ==
    SelectSeq(gs.eliminated_players, LAMBDA p : p \in DOMAIN gs.players)

\* C16: every id in the eliminated list is a key of players or of bots;
\* remove_player(id) leaves id in neither players nor the eliminated list;
\* remove_all_bots leaves no bot id in the eliminated list and keeps the humans
\* and their eliminated entries.
C16_EliminatedRegistered ==
    /\ \A i \in 1..Len(game_state.eliminated_players) :
           game_state.eliminated_players[i]
               \in DOMAIN game_state.players \cup DOMAIN game_state.bots
    /\ \A id \in PlayerIds \cup BotIds :
           /\ id \notin DOMAIN remove_player(game_state, id).players
           /\ ~InList(remove_player(game_state, id).eliminated_players, id)
    /\ \A id \in DOMAIN game_state.bots :
           ~InList(remove_all_bots(game_state).eliminated_players, id)
    /\ remove_all_bots(game_state).players = game_state.players
    /\ EliminatedHumans(remove_all_bots(game_state)) = EliminatedHumans(game_state)

\* remove_player has run for an id that is now in neither collection while an
\* eliminated human and an eliminated bot are still registered
C16_Witness ==
    /\ lastOp.op = "remove_player"
    /\ lastOp.id \notin DOMAIN game_state.players
    /\ \E h \in DOMAIN game_state.players : InList(game_state.eliminated_players, h)
    /\ \E b \in DOMAIN game_state.bots : InList(game_state.eliminated_players, b)

\* C17: eliminate_player(id) and update_player_position(id, position) for an id
\* that is a key of neither players nor bots raise nothing and leave every field
\* of the session as it was.
C17_UnknownIgnored ==
    [][\A id \in PlayerIds \cup BotIds :
          /\ lastOp'.op \in {"eliminate_player", "update_player_position"}
          /\ lastOp'.id = id
          /\ lastOp'.n = lastOp.n + 1
          /\ id \notin DOMAIN game_state.players \cup DOMAIN game_state.bots
          => ~lastOp'.raised /\ game_state' = game_state]_vars

\* update_player_position has run for an id that is not registered, in a
\* session that has other participants
C17_Witness ==
    /\ lastOp.op = "update_player_position"
    /\ lastOp.id \notin DOMAIN game_state.players \cup DOMAIN game_state.bots
    /\ ~lastOp.raised
    /\ game_state.players # <<>>
    /\ game_state.bots # <<>>

\* C18: get_state returns a snapshot whose players are exactly the humans and
\* the active bots, and no entry of it is None.
C18_SnapshotPlayers ==
    /\ ~get_state_raises(game_state)
    /\ DOMAIN get_state(game_state).players =
           DOMAIN game_state.players
               \cup {b \in DOMAIN game_state.bots : game_state.bots[b].active}
    /\ \A id \in DOMAIN get_state(game_state).players :
           get_state(game_state).players[id] # None

\* C27: in every session state, add_bots(count) creates exactly the ids
\* Bot_1..Bot_count that are missing, leaves every existing bot's record as it
\* was, changes nothing but the bot registry, and a second add_bots(count),
\* with either light-trail setting, changes nothing more.
C27_AddBotsIdempotent ==
    \A count \in 0..MaxBots : \A t \in BOOLEAN :
        LET once == add_bots(game_state, count, t)
        IN  /\ DOMAIN once.bots = DOMAIN game_state.bots \cup {BotId(i) : i \in 1..count}
            /\ \A b \in DOMAIN game_state.bots : once.bots[b] = game_state.bots[b]
            /\ \A b \in DOMAIN once.bots \ DOMAIN game_state.bots : once.bots[b] = BotPlayer(t)
            /\ [once EXCEPT !.bots = game_state.bots] = game_state
            /\ \A t2 \in BOOLEAN : add_bots(once, count, t2) = once

\* add_bots has just run on a population that held an eliminated bot, and the
\* bots of the full population were created by calls with different settings
C27_Witness ==
    /\ lastOp.op = "add_bots"
    /\ Cardinality(DOMAIN game_state.bots) = MaxBots
    /\ \E b \in DOMAIN game_state.bots : game_state.bots[b].is_eliminated
    /\ \E b, c \in DOMAIN game_state.bots :
           game_state.bots[b].use_light_trails # game_state.bots[c].use_light_trails

\* C29: for every registered id, human or bot, the id is in the eliminated
\* list exactly when the participant's is_eliminated flag is true.
C29_EliminationConsistent ==
    \A id \in DOMAIN game_state.players \cup DOMAIN game_state.bots :
        InList(game_state.eliminated_players, id) <=> IsEliminated(game_state, id)

(***************************************************************************)
(* Claims about the websocket server, checked under Spec.                  *)
(***************************************************************************)
\* the events a step delivers to websocket o
Delivered(o) == {inbox'[o][i] : i \in (Len(inbox[o]) + 1)..Len(inbox'[o])}

\* the number of events e in a sequence of events
Count(seq, e) == Cardinality({i \in 1..Len(seq) : seq[i] = e})

\* websocket ws is the registered connection of id
Registered(id, ws) == Connected(active_connections, id) /\ Get(active_connections, id) = ws

\* C4: when a websocket of p1 has dropped and a new websocket for p1 connects
\* within the grace period, the connect sequence of the new handler delivers no
\* player_left and no player_joined for p1 to any other websocket and p1's
\* participant record stays in the registry, unchanged.
C4_ReconnectionSilent ==
    [][\A ws \in 1..MaxWs :
          /\ handlers[ws].pc \in {"idle", "close_old", "join_bcast"}
          /\ handlers'[ws] # handlers[ws]
          /\ handlers'[ws].reconnect
          => LET p1 == handlers'[ws].id
             IN  /\ p1 \in DOMAIN game_state'.players
                 /\ p1 \in DOMAIN game_state.players
                        => game_state'.players[p1] = game_state.players[p1]
                 /\ \A o \in (1..MaxWs) \ {ws} :
                        /\ Event("player_left", p1, NoPosition) \notin Delivered(o)
                        /\ Event("player_joined", p1, NoPosition) \notin Delivered(o)]_vars

\* C5: a player_move with a position from the registered connection of p1 leaves
\* the handler in its message loop (the connection stays open), delivers
\* nothing to p1's own websocket, delivers to other websockets nothing but the
\* player_moved event of p1 with that position, and starts delivering it when
\* another open connection is registered.
C5_BroadcastExclusion ==
    [][\A ws \in 1..MaxWs : \A position \in Positions :
          /\ Receive(ws, Message(TRUE, "player_move", TRUE, position, ""))
          /\ handlers[ws].player_id = handlers[ws].id
          /\ Registered(handlers[ws].id, ws)
          /\ handlers[ws].id \in DOMAIN game_state.players
          => LET moved == Event("player_moved", handlers[ws].id, position)
             IN  /\ handlers'[ws].pc \in {"recv", "msg_bcast"}
                 /\ Delivered(ws) = {}
                 /\ \A o \in (1..MaxWs) \ {ws} : Delivered(o) \subseteq {moved}
                 /\ (\E o \in (1..MaxWs) \ {ws} :
                        conn[o] = "open" /\ Registered(handlers[o].id, o))
                        => \E o \in (1..MaxWs) \ {ws} : Delivered(o) = {moved}]_vars

\* C6: the step in which a handler learns that its websocket has closed
\* (receive_text raises) neither removes the participant from the registry nor
\* delivers a player_left event for it: removal waits for the grace period.
C6_NoImmediateRemoval ==
    [][\A ws \in 1..MaxWs :
          /\ handlers[ws].pc = "recv"
          /\ conn[ws] = "closed"
          /\ handlers'[ws] # handlers[ws]
          /\ handlers[ws].player_id \in DOMAIN game_state.players
          => /\ handlers[ws].player_id \in DOMAIN game_state'.players
             /\ \A o \in 1..MaxWs :
                    Event("player_left", handlers[ws].player_id, NoPosition)
                        \notin Delivered(o)]_vars

\* C7: a participant that connected once has departed at most once, so every
\* websocket that is still registered has received at most one player_left event
\* for it.
C7_LeftAtMostOnce ==
    \A p \in PlayerIds : \A o \in 1..MaxWs :
        /\ Cardinality({ws \in 1..MaxWs : handlers[ws].id = p}) = 1
        /\ handlers[o].id # p
        /\ Registered(handlers[o].id, o)
        => Count(inbox[o], Event("player_left", p, NoPosition)) <= 1

\* no task of the server has a step left to run: every handler waits for its
\* client (or has returned) and no delayed removal is pending
Quiescent ==
    /\ removals = <<>>
    /\ \A ws \in 1..MaxWs :
          \/ handlers[ws].pc \in {"idle", "done"}
          \/ handlers[ws].pc = "recv" /\ conn[ws] = "open"

\* C8: once every websocket of a participant has closed and every task the
\* server scheduled has run to its end, the participant is in neither the
\* connection table nor the participant registry.
C8_DepartureCompletes ==
    \A p \in PlayerIds :
        /\ Quiescent
        /\ \E ws \in 1..MaxWs : handlers[ws].id = p
        /\ \A ws \in 1..MaxWs : handlers[ws].id = p => conn[ws] = "closed"
        => /\ ~Connected(active_connections, p)
           /\ p \notin DOMAIN game_state.players

\* the broadcasts that are suspended in a send
InFlight ==
    {handlers[ws].bc : ws \in {x \in 1..MaxWs : handlers[x].pc \in
                                   {"join_bcast", "msg_bcast", "left_bcast"}}}
    \cup {removals[k].bc : k \in {x \in 1..Len(removals) : removals[x].pc = "bcast"}}

\* C9: a broadcast in which a send has failed still runs to its end (it is not
\* cut short by an error, so the other recipients get the message and the
\* failing connection is taken off the table), and the participant of the
\* failing connection stays registered at least until that broadcast has ended
\* and scheduled the delayed removal.
C9_SendFailure ==
    /\ \A r \in raised : r.disconnected = <<>>
    /\ \A b \in InFlight : \A k \in 1..Len(b.disconnected) :
           b.disconnected[k] \in DOMAIN game_state.players

\* the frames that are invalid JSON or lack type, data or data.position
Malformed ==
    {Message(FALSE, "", FALSE, NoPosition, ""),
     Message(TRUE, "", TRUE, NoPosition, ""),
     Message(TRUE, "player_move", TRUE, NoPosition, ""),
     Message(TRUE, "player_move", FALSE, NoPosition, "")}

\* C10: a malformed message is dropped: the session registry and the connection
\* table are unchanged, nothing is delivered to any websocket, and the handler
\* is back in receive_text for the next message of the connection.
C10_MalformedDropped ==
    [][\A ws \in 1..MaxWs : \A m \in Malformed :
          Receive(ws, m)
          => /\ handlers'[ws].pc = "recv"
             /\ game_state' = game_state
             /\ active_connections' = active_connections
             /\ inbox' = inbox]_vars

\* C19: on every connection the first event delivered is the game_state
\* snapshot, and the events delivered on it hold that snapshot once at most.
C19_StateFirst ==
    \A ws \in 1..MaxWs :
        /\ inbox[ws] # <<>> => inbox[ws][1].type = "game_state"
        /\ Cardinality({i \in 1..Len(inbox[ws]) : inbox[ws][i].type = "game_state"}) <= 1

\* the ids other than id are registered, flagged and listed in gs2 as in gs1
OthersUntouched(gs1, gs2, id) ==
    \A o \in (PlayerIds \cup BotIds \cup {Unknown}) \ {id} :
        /\ o \in DOMAIN gs1.players <=> o \in DOMAIN gs2.players
        /\ o \in DOMAIN gs1.players /\ o \in DOMAIN gs2.players =>
               gs1.players[o] = gs2.players[o]
        /\ InList(gs1.eliminated_players, o) <=> InList(gs2.eliminated_players, o)

\* C24: whatever messages a handler has processed before, a player_move or
\* player_eliminated message of its connection and its cleanup on close name the
\* connect-time id in every player_moved, player_eliminated and player_left
\* event they deliver, change the registration, record and elimination of no
\* other participant, and a handler that ends leaves no table entry that maps
\* its id to its websocket.
C24_IdFixed ==
    [][\A ws \in 1..MaxWs :
          \/ \E m \in Messages :
                 m.type \in {"player_move", "player_eliminated"} /\ Receive(ws, m)
          \/ Disconnected(ws)
          => /\ \A o \in 1..MaxWs : \A e \in Delivered(o) :
                    e.type \in {"player_moved", "player_eliminated", "player_left"}
                        => e.player_id = handlers[ws].id
             /\ OthersUntouched(game_state, game_state', handlers[ws].id)
             /\ handlers'[ws].pc = "done" =>
                    ~(/\ Connected(active_connections', handlers[ws].id)
                      /\ Get(active_connections', handlers[ws].id) = ws)]_vars

\* C28: no broadcast that is resumed in a send raises, whatever happened to the
\* connection table meanwhile: the handler that issued it keeps its connection
\* open, and the bot update task that issued it does not enter its backoff.
C28_BroadcastChurn ==
    [][/\ raised' = raised
       /\ \A ws \in 1..MaxWs :
              /\ HandlerSent(ws)
              /\ handlers[ws].pc \in {"join_bcast", "msg_bcast"}
              /\ conn[ws] = "open"
              => conn'[ws] = "open"
       /\ \A k \in 1..Len(bot_tasks) :
              bot_tasks[k].pc = "bcast" /\ Len(bot_tasks') = Len(bot_tasks)
                  => bot_tasks'[k].pc # "backoff"]_vars

(***************************************************************************)
(* Claims about the bot update task, checked under SpecBots.               *)
(***************************************************************************)
\* C20: at most one bot update task is alive, and the handle is set exactly
\* while one is; starting the loop while the handle is set changes nothing, and
\* stop_bot_updates leaves no task alive and the handle cleared.
C20_SingleTask ==
    /\ Len(bot_tasks) <= 1
    /\ game_state.bot_update_task <=> bot_tasks # <<>>
    /\ game_state.bot_update_task => start_bot_updates(World) = World
    /\ stop_bot_updates(World).bot_tasks = <<>>
    /\ ~stop_bot_updates(World).game_state.bot_update_task

\* two add-bots requests are suspended in their broadcasts, the second entered
\* add_bots while the task started for the first was running, and that task is
\* suspended in a broadcast of its own
C20_Witness ==
    /\ Len(requests) = 2
    /\ \A i \in 1..2 : requests[i].pc = "join_bcast" /\ ~requests[i].then_add
    /\ Len(bot_tasks) = 1
    /\ bot_tasks[1].pc = "bcast"

\* the events of a type that name a participant, among the events of a socket
Received(ws, type, id) ==
    {i \in 1..Len(inbox[ws]) : inbox[ws][i].type = type /\ inbox[ws][i].player_id = id}

\* C21: while the handle of the bot update task is unset, no step runs an
\* iteration of the loop and no step delivers a player_moved event, whatever
\* the task was suspended in when it was stopped; and a step that unsets the
\* handle leaves no task behind.
C21_StopSynchronous ==
    [][/\ ~game_state.bot_update_task =>
              /\ ticks' = ticks
              /\ \A o \in 1..MaxWs : \A e \in Delivered(o) : e.type # "player_moved"
       /\ game_state.bot_update_task /\ ~game_state'.bot_update_task =>
              bot_tasks' = <<>>]_vars

\* the remove request has stopped the task after an iteration had delivered
\* player_moved for Bot_1: the next event of the socket is the request's
\* player_left, and no task is left
C21_Witness ==
    /\ ~game_state.bot_update_task
    /\ bot_tasks = <<>>
    /\ ticks = 1
    /\ \E ws \in 1..MaxWs : \E i \in Received(ws, "player_moved", BotId(1)) :
           /\ i + 1 = Len(inbox[ws])
           /\ inbox[ws][i + 1].type = "player_left"
           /\ inbox[ws][i + 1].player_id = BotId(1)
    /\ \E i \in 1..Len(requests) :
           requests[i].pc = "left_bcast" /\ requests[i].bot_ids = <<BotId(2)>>

\* C22: when a broadcast of an iteration raises, the task stays alive in the
\* backoff sleep of its except clause and the handle stays set; a task in its
\* backoff can run its next iteration for any set of moved bots.
C22_TickFailureSurvived ==
    [][\A k \in 1..Len(bot_tasks) :
          /\ raised' # raised /\ TickSent(k) =>
                 /\ Len(bot_tasks') = Len(bot_tasks)
                 /\ bot_tasks'[k].pc = "backoff"
                 /\ game_state'.bot_update_task
          /\ bot_tasks[k].pc = "backoff" /\ ticks < MaxTicks =>
                 \A changed \in SUBSET Updated : ENABLED Tick(k, changed)]_vars

\* the only task ever started has failed in a broadcast of its first iteration
\* and is in its second iteration, suspended in a broadcast or asleep after it
C22_Witness ==
    /\ served = 1
    /\ ticks = MaxTicks
    /\ \E x \in raised : x.message.type = "player_moved"
    /\ Len(bot_tasks) = 1
    /\ bot_tasks[1].pc \in {"bcast", "sleep"}
    /\ game_state.bot_update_task

(***************************************************************************)
(* Claims about connections next to a bot population, under SpecRejoin.    *)
(***************************************************************************)
\* C25: a client that connects while bots exist and the handle of the bot
\* update task is unset leaves the handle set; and after every step, when a
\* connection is registered and a bot exists, the handle is set.
C25_StartOnConnect ==
    [][/\ \A id \in PlayerIds :
              /\ DOMAIN game_state.bots # {}
              /\ ~game_state.bot_update_task
              /\ Connect(id)
              => game_state'.bot_update_task
       /\ Used(active_connections') > 0 /\ DOMAIN game_state'.bots # {}
              => game_state'.bot_update_task]_vars

(***************************************************************************)
(* Claims about the update task and eliminated bots, under SpecElim.       *)
(***************************************************************************)
\* C26: no step delivers a player_moved event for a bot that is in the
\* eliminated list when the step is taken, and an iteration that starts
\* collects updates only of bots that are not in the list.
C26_EliminatedSkipped ==
    [][/\ \A o \in 1..MaxWs : \A e \in Delivered(o) :
              e.type = "player_moved" /\ e.player_id \in BotIds
                  => ~InList(game_state.eliminated_players, e.player_id)
       /\ ticks' # ticks =>
              \A k \in 1..Len(bot_tasks') : \A i \in 1..Len(bot_tasks'[k].updates) :
                  ~InList(game_state.eliminated_players, bot_tasks'[k].updates[i])]_vars

(***************************************************************************)
(* Claims about the motion of a bot, checked under SpecMotion.             *)
(***************************************************************************)
\* C23: the bot is inside the arena in every state, and from every state an
\* update that is let through leaves both coordinates within half_size; a
\* coordinate the displacement carried past half_size is set to the boundary
\* on the side it crossed, the heading is reflected by the rule of each
\* boundary crossed (x: pi - heading + noise, then z: -heading + noise, taken
\* modulo 2 pi), a coordinate that stayed inside is kept as moved, and the
\* update returns true when a boundary was crossed.
C23_ArenaBound ==
    /\ Abs(bot.obj.x) <= half_size
    /\ Abs(bot.obj.z) <= half_size
    /\ \A dist \in Dists : \A turn \in Turns : \A noise_x, noise_z \in Noise :
           LET r == update_bot(bot.obj, dist, TRUE, turn, noise_x, noise_z)
               heading == (bot.obj.direction + turn) % (2 * pi)
               over_x == Abs(r.x) > half_size
               over_z == Abs(r.z) > half_size
           IN  /\ Abs(r.bot.x) <= half_size
               /\ Abs(r.bot.z) <= half_size
               /\ r.x > half_size => r.bot.x = half_size
               /\ r.x < -half_size => r.bot.x = -half_size
               /\ r.z > half_size => r.bot.z = half_size
               /\ r.z < -half_size => r.bot.z = -half_size
               /\ ~over_x => r.bot.x = r.x
               /\ ~over_z => r.bot.z = r.z
               /\ over_x /\ ~over_z =>
                      r.bot.direction = (pi - heading + noise_x) % (2 * pi)
               /\ ~over_x /\ over_z =>
                      r.bot.direction = (noise_z - heading) % (2 * pi)
               /\ over_x /\ over_z =>
                      r.bot.direction = (noise_z - (pi - heading + noise_x)) % (2 * pi)
               /\ ~over_x /\ ~over_z => r.bot.direction = heading
               /\ over_x \/ over_z => r.returned

\* the second update of a bot has carried x past the boundary (to 260 from the
\* edge, or further) and z has stayed inside: x is on the boundary, and the
\* call has returned true
C23_Witness ==
    /\ bot.n = MaxUpdates
    /\ bot.last.x >= half_size + 10
    /\ bot.obj.x = half_size
    /\ Abs(bot.last.z) < half_size
    /\ bot.last.returned

=============================================================================
